---- MODULE Spec2Model ----
(***************************************************************************)
(* A model of the two puzzle solvers of the repository.                    *)
(*                                                                         *)
(*   day20/day20.py  ParticleSystem, Particle, create_particle_system and  *)
(*                   find_closest_to_origin.  Particle objects live in a   *)
(*                   heap and the lists `system` and `_initial` hold       *)
(*                   references, so that copying a list and copying the    *)
(*                   particles in it are different things.                 *)
(*   day15/day15.py  Generator, lower_bits and score.                      *)
(*                                                                         *)
(* A handler that loops (destroy_colliding, _update_with_collisions,       *)
(* score) is stepped one loop iteration at a time; pc holds its position   *)
(* and nothing else is enabled until it returns: the program is            *)
(* single-threaded.                                                        *)
(***************************************************************************)
EXTENDS Integers, Sequences, FiniteSets, TLC

VARIABLES
    \* ---- day20: the program's state
    heap,       \* reference -> Particle object [id, pos, vel, acc]
    system,     \* ParticleSystem.system: list of references
    initial,    \* ParticleSystem._initial: list of references
    time,       \* ParticleSystem.time
    \* ---- day20: the position of the running handler and its locals
    pc,         \* "idle" | "round" | "while" | "for" | "raised"
    rounds,     \* iterations left of `for step in range(t)`
    idx,        \* index of the list iterator of `for particle in self.system`
    done,       \* the local `done` of destroy_colliding
    ret,        \* where destroy_colliding returns to: "idle" | "round"
    closest,    \* id of the particle last returned by find_closest_to_origin
    \* ---- day20: history, read by the properties only
    conds,      \* the initial conditions given to create_particle_system
    elapsed,    \* time units the live particles advanced since construction/reset
    last,       \* the operation that returned last
    entry,      \* the particles in the list when destroy_colliding was called
    scans,      \* executions of the for loop begun in this destroy_colliding
    scanStart,  \* the particles in the list when the running scan began
    before,     \* the particles in the list when update(t, collisions=True)
                \* or reset() was called
    arg,        \* the t of that call
    roundsRun,  \* rounds completed in that call
    collided,   \* ids that shared a position with a live particle after an advance
    \* ---- Particle.update studied alone
    pOnce,      \* a particle, updated by one call update(t)
    pUnit,      \* the same particle, updated by calls update(1)
    pRef,       \* the same particle, stepped by `vel += acc; pos += vel`
    tArg,       \* t
    calls,      \* calls update(1) made so far
    onceDone,   \* whether update(t) was called
    \* ---- day15
    genA, genB, \* Generator objects [start, current, factor, divisor]
    score,      \* the local `score` of score()
    left,       \* iterations left of `for _ in range(pairs)`
    matches     \* history: pairs so far that agree modulo 2^16

vars20 == <<heap, system, initial, time, pc, rounds, idx, done, ret, closest,
            conds, elapsed, last, entry, scans, scanStart, before, arg,
            roundsRun, collided>>
varsP == <<pOnce, pUnit, pRef, tArg, calls, onceDone>>
vars15 == <<genA, genB, score, left, matches>>
vars == <<vars20, varsP, vars15>>

----------------------------------------------------------------------------
(* Bounds of the model *)

\* Particles given to create_particle_system in Spec.
MaxParticles == 3
\* Time units a system is advanced before it is reset (Spec).
MaxTime == 3
\* Particles in the lists of SpecDestroy.
MaxList == 6

----------------------------------------------------------------------------
(* Vectors and the inputs the model draws from *)

Zero == <<0, 0, 0>>

\* find_closest_to_origin's `closest = None`; ids are >= 0 and references >= 1.
None == -1
\* find_closest_to_origin's `dist = float('inf')`; distances are >= 0.
Inf == -1

Range(s) == {s[i] : i \in 1..Len(s)}

\* Lines of input, each (position, velocity, acceleration):
\*   at rest at the origin;
\*   x = -1, 0, 1, 2: at the origin at step 1;
\*   x = -2, -1, 0, 1: at the origin at step 2;
\*   z = 0, 1, 2, 3: at the origin at step 0 only;
\*   at rest at distance 1 on the y axis;
\*   x = 1, 0, -2, -5: accelerating, at the origin at step 1.
Conds ==
    { <<Zero, Zero, Zero>>,
      <<<<-1, 0, 0>>, <<1, 0, 0>>, Zero>>,
      <<<<-2, 0, 0>>, <<1, 0, 0>>, Zero>>,
      <<Zero, <<0, 0, 1>>, Zero>>,
      <<<<0, 1, 0>>, Zero, Zero>>,
      <<<<1, 0, 0>>, Zero, <<-1, 0, 0>>>> }

\* Positions of the particles at rest of SpecDestroy.
RestPositions == {Zero, <<1, 0, 0>>, <<0, 1, 0>>, <<0, 0, -1>>}
RestConds == {<<p, Zero, Zero>> : p \in RestPositions}

Lists(S, n) == UNION {[1..k -> S] : k \in 0..n}

----------------------------------------------------------------------------
(* Particle *)

\* Particle.__init__
Particle(id, pos, vel, acc) == [id |-> id, pos |-> pos, vel |-> vel, acc |-> acc]

\* Particle.update(t).  acc * t * (t + 1) is even, so the true division by 2
\* is exact and the quotient is the integer \div gives.
ParticleUpdateLate(p, t) ==
    [p EXCEPT !.pos = [i \in 1..3 |->
                         p.pos[i] + t * p.vel[i] + (p.acc[i] * t * (t - 1)) \div 2],
              !.vel = [i \in 1..3 |-> p.vel[i] + p.acc[i] * t]]

ParticleUpdate(p, t) ==
    [p EXCEPT !.pos = [i \in 1..3 |->
                         p.pos[i] + t * p.vel[i] + (p.acc[i] * t * (t + 1)) \div 2],
              !.vel = [i \in 1..3 |-> p.vel[i] + p.acc[i] * t]]

Abs(x) == IF x < 0 THEN -x ELSE x

\* Particle.manhattan_dist()
ManhattanDistNoAbs(p) == p.pos[1] + p.pos[2] + p.pos[3]

ManhattanDist(p) == Abs(p.pos[1]) + Abs(p.pos[2]) + Abs(p.pos[3])

----------------------------------------------------------------------------
(* The heap: allocation, copies, collection *)

\* The n lowest references not in `used`, from `from` on.
RECURSIVE FreshRefs(_, _, _)
FreshRefs(used, n, from) ==
    IF n = 0 THEN <<>>
    ELSE IF from \in used THEN FreshRefs(used, n, from + 1)
    ELSE <<from>> \o FreshRefs(used, n - 1, from + 1)

\* Objects no list refers to any more are gone.
Collect(h, roots) == [r \in roots |-> h[r]]

\* copy.copy(list): a new list of the same particle objects.
ShallowCopy(h, list, keep) == [list |-> list, heap |-> Collect(h, keep)]

\* copy.deepcopy(list): a new list of new particle objects with the same
\* values.  `keep` are the references still in use after the copy is stored.
DeepCopy(h, list, keep) ==
    LET new == FreshRefs(keep, Len(list), 1)
    IN  [list |-> new,
         heap |-> [r \in keep \cup Range(new) |->
                     IF r \in keep THEN h[r]
                     ELSE h[list[CHOOSE i \in 1..Len(list) : new[i] = r]]]]

\* The values a list of references holds, in list order.
Values(h, list) == [i \in 1..Len(list) |-> h[list[i]]]

\* The particles create_particle_system builds: ids from 0 in input order.
NewParticles(c) == [i \in 1..Len(c) |-> Particle(i - 1, c[i][1], c[i][2], c[i][3])]

----------------------------------------------------------------------------
(* ParticleSystem *)

\* get_colliders(particle): the others at the particle's position.
GetCollidersNoIdTest(h, sys, particle) ==
    LET Hit(other) == h[other].pos = h[particle].pos
    IN  SelectSeq(sys, Hit)

GetColliders(h, sys, particle) ==
    LET Hit(other) == h[other].pos = h[particle].pos /\ h[other].id # h[particle].id
    IN  SelectSeq(sys, Hit)

\* list.remove(x): drops the first occurrence of x.
ListRemove(s, x) ==
    LET i == CHOOSE k \in 1..Len(s) : s[k] = x /\ \A j \in 1..(k - 1) : s[j] # x
    IN  SubSeq(s, 1, i - 1) \o SubSeq(s, i + 1, Len(s))

\* The removals of one iteration, in order; list.remove raises ValueError
\* (ok = FALSE) when its argument is not in the list.
RECURSIVE RemoveEach(_, _)
RemoveEach(res, targets) ==
    IF targets = <<>> \/ ~res.ok THEN res
    ELSE IF Head(targets) \notin Range(res.list)
         THEN [list |-> res.list, ok |-> FALSE]
         ELSE RemoveEach([list |-> ListRemove(res.list, Head(targets)), ok |-> TRUE],
                         Tail(targets))

\* self.system.remove(particle); for other in colliders: self.system.remove(other)
RemoveFirstColliderOnly(sys, particle, colliders) ==
    RemoveEach([list |-> sys, ok |-> TRUE], <<particle, Head(colliders)>>)

RemoveColliding(sys, particle, colliders) ==
    RemoveEach([list |-> sys, ok |-> TRUE], <<particle>> \o colliders)

\* `particle_dist < dist`, dist being float('inf') at first.
LessOrEqual(d, dist) == dist = Inf \/ d <= dist

Less(d, dist) == dist = Inf \/ d < dist

\* The scan of find_closest_to_origin from list index i on.

RECURSIVE ClosestFrom(_, _, _, _, _)
ClosestFrom(h, sys, i, cl, dist) ==
    IF i > Len(sys) THEN cl
    ELSE LET d == ManhattanDist(h[sys[i]])
         IN  IF Less(d, dist) THEN ClosestFrom(h, sys, i + 1, sys[i], d)
             ELSE ClosestFrom(h, sys, i + 1, cl, dist)

\* find_closest_to_origin(system): a reference, or None.
FindClosestInSnapshot(h, sys) == ClosestFrom(h, initial, 1, None, Inf)

FindClosestToOrigin(h, sys) == ClosestFrom(h, sys, 1, None, Inf)

\* str(particle) of what find_closest_to_origin returned.
Shown(h, r) == IF r = None THEN None ELSE h[r].id

\* Ids of the particles of `list` that share their position with another one.
Sharing(h, list) ==
    {h[r].id : r \in {x \in Range(list) :
                        \E y \in Range(list) : y # x /\ h[y].pos = h[x].pos}}

----------------------------------------------------------------------------
(* Construction: create_particle_system, then ParticleSystem.__init__ *)

IdleP == /\ pOnce = Particle(0, Zero, Zero, Zero)
         /\ pUnit = pOnce
         /\ pRef = pOnce
         /\ tArg = 0
         /\ calls = 0
         /\ onceDone = FALSE

Idle15 == /\ genA = [start |-> 0, current |-> 0, factor |-> 0, divisor |-> 1]
          /\ genB = genA
          /\ score = 0
          /\ left = 0
          /\ matches = 0

Construct(c) ==
    LET n == Len(c)
        own == [i \in 1..n |-> i]
        made == [r \in 1..n |-> NewParticles(c)[r]]
        copy == DeepCopy(made, own, 1..n)
    IN  /\ conds = c
        /\ system = own
        /\ initial = copy.list
        /\ heap = copy.heap
        /\ time = 0
        /\ pc = "idle"
        /\ rounds = 0
        /\ idx = 0
        /\ done = TRUE
        /\ ret = "idle"
        /\ closest = None
        /\ elapsed = 0
        /\ last = "init"
        /\ entry = <<>>
        /\ scans = 0
        /\ scanStart = <<>>
        /\ before = <<>>
        /\ arg = 0
        /\ roundsRun = 0
        /\ collided = {}

Init == /\ \E c \in Lists(Conds, MaxParticles) : Construct(c)
        /\ IdleP
        /\ Idle15

----------------------------------------------------------------------------
(* ParticleSystem's operations.  The history of a call is kept until the   *)
(* next call begins; a value returned is held until the next call.         *)

AdvanceAll(h, t) ==
    [r \in DOMAIN h |-> IF r \in Range(system) THEN ParticleUpdate(h[r], t) ELSE h[r]]

\* update(t), collisions=False: _update_without_collisions(t).  `bound` is the
\* time the model lets a system run.
UpdateWithin(t, bound) ==
    /\ pc = "idle"
    /\ elapsed + t <= bound
    /\ heap' = AdvanceAll(heap, t)
    /\ elapsed' = elapsed + t
    /\ last' = "update"
    /\ closest' = None
    /\ entry' = <<>> /\ scans' = 0 /\ scanStart' = <<>>
    /\ before' = <<>> /\ arg' = 0 /\ roundsRun' = 0 /\ collided' = {}
    /\ UNCHANGED <<system, initial, time, pc, rounds, idx, done, ret, conds>>
    /\ UNCHANGED <<varsP, vars15>>

Update(t) == UpdateWithin(t, MaxTime)

\* update(t, collisions=True): enters _update_with_collisions(t)
UpdateWithCollisionsOneMore(t) ==
    /\ pc = "idle"
    /\ elapsed + t <= MaxTime
    /\ pc' = "round"
    /\ rounds' = t + 1
    /\ closest' = None
    /\ entry' = <<>> /\ scans' = 0 /\ scanStart' = <<>>
    /\ before' = Values(heap, system) /\ arg' = t /\ roundsRun' = 0 /\ collided' = {}
    /\ UNCHANGED <<heap, system, initial, time, idx, done, ret, conds, elapsed, last>>
    /\ UNCHANGED <<varsP, vars15>>

UpdateWithCollisions(t) ==
    /\ pc = "idle"
    /\ elapsed + t <= MaxTime
    /\ pc' = "round"
    /\ rounds' = t
    /\ closest' = None
    /\ entry' = <<>> /\ scans' = 0 /\ scanStart' = <<>>
    /\ before' = Values(heap, system) /\ arg' = t /\ roundsRun' = 0 /\ collided' = {}
    /\ UNCHANGED <<heap, system, initial, time, idx, done, ret, conds, elapsed, last>>
    /\ UNCHANGED <<varsP, vars15>>

\* One iteration of `for step in range(t)` up to the call of destroy_colliding
\* (which sets done = False), or the end of the loop and the return.
Round ==
    /\ pc = "round"
    /\ IF rounds > 0
       THEN /\ heap' = AdvanceAll(heap, 1)
            /\ rounds' = rounds - 1
            /\ elapsed' = elapsed + 1
            /\ collided' = collided \cup Sharing(heap', system)
            /\ pc' = "while"
            /\ done' = FALSE
            /\ ret' = "round"
            /\ entry' = Values(heap', system)
            /\ UNCHANGED last
       ELSE /\ pc' = "idle"
            /\ last' = "updatec"
            /\ ret' = "idle"
            /\ entry' = <<>>
            /\ UNCHANGED <<heap, rounds, elapsed, collided, done>>
    /\ scans' = 0
    /\ scanStart' = <<>>
    /\ UNCHANGED <<system, initial, time, idx, closest, conds, before, arg, roundsRun>>
    /\ UNCHANGED <<varsP, vars15>>

\* destroy_colliding() called by the user of the system.
DestroyColliding ==
    /\ pc = "idle"
    /\ pc' = "while"
    /\ done' = FALSE
    /\ ret' = "idle"
    /\ closest' = None
    /\ entry' = Values(heap, system) /\ scans' = 0 /\ scanStart' = <<>>
    /\ before' = <<>> /\ arg' = 0 /\ roundsRun' = 0 /\ collided' = {}
    /\ UNCHANGED <<heap, system, initial, time, rounds, idx, conds, elapsed, last>>
    /\ UNCHANGED <<varsP, vars15>>

\* `while not done`: begin a scan (done = True, a new list iterator), or return.
WhileTest ==
    /\ pc = "while"
    /\ IF ~done
       THEN /\ done' = TRUE
            /\ idx' = 0
            /\ pc' = "for"
            /\ scans' = scans + 1
            /\ scanStart' = Values(heap, system)
            /\ UNCHANGED <<last, roundsRun>>
       ELSE /\ pc' = ret
            /\ last' = IF ret = "idle" THEN "destroy" ELSE last
            /\ roundsRun' = IF ret = "round" THEN roundsRun + 1 ELSE roundsRun
            /\ idx' = 0
            /\ UNCHANGED <<done, scans, scanStart>>
    /\ UNCHANGED <<heap, system, initial, time, rounds, ret, closest, conds, elapsed,
                   entry, before, arg, collided>>
    /\ UNCHANGED <<varsP, vars15>>

\* ForStep without its `done = False`.
ForStepKeepsDone ==
    /\ pc = "for"
    /\ IF idx < Len(system)
       THEN LET particle == system[idx + 1]
                colliders == GetColliders(heap, system, particle)
                res == RemoveColliding(system, particle, colliders)
            IN  /\ idx' = idx + 1
                /\ IF colliders # <<>>
                   THEN /\ done' = done
                        /\ system' = res.list
                        /\ heap' = Collect(heap, Range(res.list) \cup Range(initial))
                        /\ pc' = IF res.ok THEN "for" ELSE "raised"
                   ELSE UNCHANGED <<done, system, heap, pc>>
       ELSE /\ pc' = "while"
            /\ UNCHANGED <<idx, done, system, heap>>
    /\ UNCHANGED <<initial, time, rounds, ret, closest, conds, elapsed, last, entry,
                   scans, scanStart, before, arg, roundsRun, collided>>
    /\ UNCHANGED <<varsP, vars15>>

\* One iteration of `for particle in self.system`: the iterator yields the
\* element at its index in the list as it is now and moves on, or the loop ends.
ForStep ==
    /\ pc = "for"
    /\ IF idx < Len(system)
       THEN LET particle == system[idx + 1]
                colliders == GetColliders(heap, system, particle)
                res == RemoveColliding(system, particle, colliders)
            IN  /\ idx' = idx + 1
                /\ IF colliders # <<>>
                   THEN /\ done' = FALSE
                        /\ system' = res.list
                        /\ heap' = Collect(heap, Range(res.list) \cup Range(initial))
                        /\ pc' = IF res.ok THEN "for" ELSE "raised"
                   ELSE UNCHANGED <<done, system, heap, pc>>
       ELSE /\ pc' = "while"
            /\ UNCHANGED <<idx, done, system, heap>>
    /\ UNCHANGED <<initial, time, rounds, ret, closest, conds, elapsed, last, entry,
                   scans, scanStart, before, arg, roundsRun, collided>>
    /\ UNCHANGED <<varsP, vars15>>

\* reset()
Reset ==
    /\ pc = "idle"
    /\ LET copy == DeepCopy(heap, initial, Range(initial))
       IN  /\ system' = copy.list
           /\ heap' = copy.heap
    /\ elapsed' = 0
    /\ last' = "reset"
    /\ closest' = None
    /\ entry' = <<>> /\ scans' = 0 /\ scanStart' = <<>>
    /\ before' = Values(heap, system) /\ arg' = 0 /\ roundsRun' = 0 /\ collided' = {}
    /\ UNCHANGED <<initial, time, pc, rounds, idx, done, ret, conds>>
    /\ UNCHANGED <<varsP, vars15>>

\* find_closest_to_origin(system)
FindClosest ==
    /\ pc = "idle"
    /\ closest' = Shown(heap, FindClosestToOrigin(heap, system))
    /\ last' = "find"
    /\ entry' = <<>> /\ scans' = 0 /\ scanStart' = <<>>
    /\ before' = <<>> /\ arg' = 0 /\ roundsRun' = 0 /\ collided' = {}
    /\ UNCHANGED <<heap, system, initial, time, pc, rounds, idx, done, ret, conds,
                   elapsed>>
    /\ UNCHANGED <<varsP, vars15>>

Next ==
    \/ \E t \in 0..MaxTime : Update(t)
    \/ \E t \in 0..MaxTime : UpdateWithCollisions(t)
    \/ Round
    \/ DestroyColliding
    \/ WhileTest
    \/ ForStep
    \/ Reset
    \/ FindClosest

Spec == Init /\ [][Next]_vars

----------------------------------------------------------------------------
(* destroy_colliding alone, on systems of particles at rest *)

InitDestroy == /\ \E c \in Lists(RestConds, MaxList) : Construct(c)
               /\ IdleP
               /\ Idle15

NextDestroy == DestroyColliding \/ WhileTest \/ ForStep

SpecDestroy == InitDestroy /\ [][NextDestroy]_vars

----------------------------------------------------------------------------
(* The two-particle scenario, advanced without collisions *)

\* Time units the scenario is advanced.
ScenarioTime == 60
\* From how many steps on the number of steps counts as large.
ScenarioLarge == 10

\* p=<3,0,0>, v=<2,0,0>, a=<-1,0,0> (id 0); p=<4,0,0>, v=<0,0,0>, a=<-2,0,0> (id 1)
Scenario == << <<<<3, 0, 0>>, <<2, 0, 0>>, <<-1, 0, 0>>>>,
               <<<<4, 0, 0>>, <<0, 0, 0>>, <<-2, 0, 0>>>> >>

InitScenario == Construct(Scenario) /\ IdleP /\ Idle15

NextScenario ==
    \/ \E t \in 1..ScenarioTime : UpdateWithin(t, ScenarioTime)
    \/ FindClosest
    \/ Reset

SpecScenario == InitScenario /\ [][NextScenario]_vars

----------------------------------------------------------------------------
(* Particle.update alone: one call update(t) beside t calls update(1) *)

\* Largest t.
MaxSteps == 5

UpdateVectors == {Zero, <<1, 0, 0>>, <<0, -1, 2>>, <<-2, 1, 0>>, <<1, 1, -1>>}

InitUpdate ==
    /\ Construct(<<>>)
    /\ Idle15
    /\ \E pos \in UpdateVectors, vel \in UpdateVectors, acc \in UpdateVectors :
          pOnce = Particle(0, pos, vel, acc)
    /\ pUnit = pOnce
    /\ pRef = pOnce
    /\ tArg \in 0..MaxSteps
    /\ calls = 0
    /\ onceDone = FALSE

\* particle.update(t)
CallUpdateOnce ==
    /\ ~onceDone
    /\ pOnce' = ParticleUpdate(pOnce, tArg)
    /\ onceDone' = TRUE
    /\ UNCHANGED <<pUnit, pRef, tArg, calls>>
    /\ UNCHANGED <<vars20, vars15>>

\* `velocity += acceleration; position += velocity`
UnitStep(p) ==
    LET v == [i \in 1..3 |-> p.vel[i] + p.acc[i]]
    IN  [p EXCEPT !.vel = v, !.pos = [i \in 1..3 |-> p.pos[i] + v[i]]]

\* particle.update(1), one of t calls
CallUpdateUnit ==
    /\ calls < tArg
    /\ pUnit' = ParticleUpdate(pUnit, 1)
    /\ pRef' = UnitStep(pRef)
    /\ calls' = calls + 1
    /\ UNCHANGED <<pOnce, tArg, onceDone>>
    /\ UNCHANGED <<vars20, vars15>>

NextUpdate == CallUpdateOnce \/ CallUpdateUnit

SpecUpdate == InitUpdate /\ [][NextUpdate]_vars

----------------------------------------------------------------------------
(* day15: Generator, lower_bits, score *)

\* Generator.__init__'s default divisor
Divisor == 2147483647
\* main's factor_a and factor_b
FactorA == 16807
FactorB == 48271
\* lower_bits' default bits
Bits == 16

\* Largest `pairs` passed to score.
MaxPairs == 8

\* Starting values: those of the puzzle's example (65 and 8921), and a pair
\* whose first values are 16807 and 82343 = 16807 + 2^16.
StartsA == {65, 1}
StartsB == {8921, 1165854375}

\* Generator(start, factor)
Generator(start, factor) ==
    [start |-> start, current |-> start, factor |-> factor, divisor |-> Divisor]

\* (a + b) % m for a, b in 0..m-1, without leaving 32 bits.
AddMod(a, b, m) == IF a >= m - b THEN a - (m - b) ELSE a + b

\* (a * b) % m.  Python's integers do not overflow; the product is built by
\* doubling so that no intermediate value here does either.
RECURSIVE MulMod(_, _, _)
MulMod(a, b, m) ==
    IF b = 0 THEN 0
    ELSE LET h == MulMod(a, b \div 2, m)
             d == AddMod(h, h, m)
         IN  IF b % 2 = 1 THEN AddMod(d, a % m, m) ELSE d

\* Generator.generate(): the generator after the call; the value returned is
\* its `current`.
Generate(g) == [g EXCEPT !.current = MulMod(g.current, g.factor, g.divisor)]

\* bin(n)[2:]: the binary digits of n, most significant first; "0" for 0.
RECURSIVE Bin(_)
Bin(n) == IF n < 2 THEN <<n>> ELSE Bin(n \div 2) \o <<n % 2>>

\* lower_bits(n, bits).  The string binary.zfill(bits) builds for a short
\* `binary` is dropped: `binary` itself is sliced.
LowerBits(n, bits) ==
    LET binary == Bin(n)
    IN  IF Len(binary) > bits
        THEN SubSeq(binary, Len(binary) - bits + 1, Len(binary))
        ELSE binary

RECURSIVE Pow2(_)
Pow2(k) == IF k = 0 THEN 1 ELSE 2 * Pow2(k - 1)

InitScore ==
    /\ Construct(<<>>)
    /\ IdleP
    /\ \E a \in StartsA : genA = Generator(a, FactorA)
    /\ \E b \in StartsB : genB = Generator(b, FactorB)
    /\ score = 0
    /\ left \in 0..MaxPairs
    /\ matches = 0

\* One iteration of `for _ in range(pairs)` in score()
ScoreStep ==
    /\ left > 0
    /\ genA' = Generate(genA)
    /\ genB' = Generate(genB)
    /\ score' = IF LowerBits(genA'.current, Bits) = LowerBits(genB'.current, Bits)
                THEN score + 1 ELSE score
    /\ matches' = IF genA'.current % Pow2(Bits) = genB'.current % Pow2(Bits)
                  THEN matches + 1 ELSE matches
    /\ left' = left - 1
    /\ UNCHANGED <<vars20, varsP>>

NextScore == ScoreStep

SpecScore == InitScore /\ [][NextScore]_vars

----------------------------------------------------------------------------
(* Properties *)

Returned(op) == pc = "idle" /\ last = op

\* The one-pass reference: group by position, drop every group of 2 or more.
OnePass(list) ==
    LET Alone(p) == \A q \in Range(list) : q.pos = p.pos => q = p
    IN  SelectSeq(list, Alone)

GroupOf(list, p) == {q \in Range(list) : q.pos = p.pos}

ScanEnded == pc = "while" /\ scans >= 1

\* C1: when destroy_colliding() returns, the particles left are exactly those
\* whose position no other particle of the list shared at the call, in their
\* order: every member of every group of 2 or more is gone, no particle alone at
\* its position is, as in the one-pass reference.  The lists of SpecDestroy are
\* all the orderings of up to MaxList particles over RestPositions.
C1_DestroyCollidingIsOnePass ==
    Returned("destroy") => Values(heap, system) = OnePass(entry)

\* A call that met a group of three, a group of two and a particle alone.
C1_Witness ==
    /\ Returned("destroy")
    /\ \E p \in Range(entry) : Cardinality(GroupOf(entry, p)) = 3
    /\ \E p \in Range(entry) : Cardinality(GroupOf(entry, p)) = 2
    /\ Len(system) = 1

C3_CollisionsAtIntegerSteps ==
    Returned("updatec") =>
        /\ roundsRun = arg
        /\ rounds = 0
        /\ LET Kept(p) == p.id \notin collided
               kept == SelectSeq(before, Kept)
           IN  Values(heap, system) = [i \in 1..Len(kept) |-> ParticleUpdate(kept[i], arg)]

\* Two particles collided at a step, and a third that had shared a position
\* with one of them at step 0 is alive.
C3_Witness ==
    /\ Returned("updatec")
    /\ arg >= 2
    /\ collided # {}
    /\ \E p \in Range(before), q \in Range(before) :
          /\ p.id # q.id
          /\ p.pos = q.pos
          /\ p.id \notin collided
          /\ q.id \in collided

\* C4: the stored snapshot always holds the particles as constructed, and when
\* reset() returns, the live list holds new particles with the ids, positions,
\* velocities and accelerations of the construction, in its order, those
\* destroyed included: the state is that of a freshly constructed system, from
\* which the same updates give the same states.
C4_ResetRestoresConstruction ==
    /\ Values(heap, initial) = NewParticles(conds)
    /\ Returned("reset") =>
          /\ Values(heap, system) = NewParticles(conds)
          /\ Range(system) \cap Range(initial) = {}
          /\ time = 0
          /\ elapsed = 0

\* reset() on a system that had moved and lost particles.
C4_Witness ==
    /\ Returned("reset")
    /\ Len(before) < Len(conds)
    /\ before # <<>>
    /\ \A i \in 1..Len(before) : before[i] \notin Range(NewParticles(conds))

LiveIds == {heap[r].id : r \in Range(system)}
DistOf(id) == ManhattanDist(heap[CHOOSE r \in Range(system) : heap[r].id = id])

C5_State ==
    (Returned("find") /\ system # <<>>) =>
        /\ closest \in LiveIds
        /\ \A id \in LiveIds :
              /\ DistOf(closest) <= DistOf(id)
              /\ DistOf(id) = DistOf(closest) => closest <= id

C5_Step ==
    (pc = "idle" /\ Returned("find")') =>
        /\ UNCHANGED <<heap, system, initial, time>>
        /\ Returned("find") => closest' = closest

\* C5: on a non-empty system find_closest_to_origin returns a live particle of
\* minimal Manhattan distance and, among those, of the smallest id; the call
\* changes no particle and no list, and a call right after another returns
\* the same id.
C5_ClosestIsMinimalSmallestId == []C5_State /\ [][C5_Step]_vars

\* A query on a system that has moved, two live particles being closest.
C5_Witness ==
    /\ Returned("find")
    /\ elapsed > 0
    /\ \E a \in LiveIds, b \in LiveIds :
          /\ a < b
          /\ closest = a
          /\ DistOf(a) = DistOf(b)
          /\ DistOf(a) > 0

\* C6 as stated: in the scenario, after a large number of steps without
\* collisions the particle with id 1 is reported.
C6_ScenarioReportsId1 ==
    (Returned("find") /\ elapsed >= ScenarioLarge) => closest = 1

\* C6 as amended: in the scenario, after t >= 3 steps without collisions the
\* particle with id 0 is reported; id 1 is reported after 1 and 2 steps only.
C6_ScenarioReportsId0 ==
    Returned("find") => closest = (IF elapsed \in {1, 2} THEN 1 ELSE 0)

C6_Witness ==
    /\ Returned("find")
    /\ elapsed = ScenarioTime
    /\ closest = 0
    /\ Values(heap, system)[1].pos[1] < 0

\* C7: on an empty system find_closest_to_origin returns None.
C7_EmptyGivesNone ==
    (Returned("find") /\ system = <<>>) => closest = None

\* A query on a system all of whose particles were destroyed.
C7_Witness ==
    /\ Returned("find")
    /\ system = <<>>
    /\ conds # <<>>
    /\ closest = None

\* C8: score counts the pairs of generated values that are equal modulo 2^16.
C8_ScoreCountsLow16Matches == score = matches

\* C9 as stated: at the end of a scan (one execution of the for loop) no two
\* particles of the list share a position.
C9_OneScanRemovesEveryGroup ==
    ScanEnded => Sharing(heap, system) = {}

\* C9 as amended: a scan removes a group whole or not at all and may leave a
\* whole group undetected; a scan that leaves one has set done = False, so
\* that another scan follows, and no group is left when destroy_colliding
\* returns.
C9_GroupsGoWholeAndRescan ==
    /\ pc \in {"while", "for"} =>
          \A p \in Range(entry), q \in Range(entry) :
              p.pos = q.pos => (p.id \in LiveIds <=> q.id \in LiveIds)
    /\ (ScanEnded /\ Sharing(heap, system) # {}) => ~done
    /\ Returned("destroy") => Sharing(heap, system) = {}

\* The end of a first scan that left a group in the list.
C9_Witness ==
    /\ ScanEnded
    /\ scans = 1
    /\ Sharing(heap, system) # {}
    /\ Len(system) < Len(entry)

\* A number that is >= 0 while destroy_colliding runs.
C10_Variant ==
    (Len(entry) \div 2 + 1 - scans) * (Len(entry) + 2)
        + (IF pc = "for" THEN Len(entry) + 1 - idx ELSE 0)

C10_Safe ==
    /\ pc # "raised"
    /\ (ScanEnded /\ ~done) => Len(system) + 2 <= Len(scanStart)
    /\ (ScanEnded /\ done) => Values(heap, system) = scanStart
    /\ scans <= Len(entry) \div 2 + 1
    /\ pc \in {"while", "for"} => C10_Variant >= 0

C10_Step ==
    pc \in {"while", "for"} =>
        \/ Returned("destroy")' /\ done /\ pc = "while"
        \/ pc' \in {"while", "for"} /\ C10_Variant' < C10_Variant

\* C10: destroy_colliding() returns, and list.remove never raises: a scan
\* after which the loop goes on has removed at least two particles, the last
\* scan removes nothing, and at most floor(n/2) + 1 scans run on n particles.
\* It returns because, until it does, every step lowers C10_Variant (and a
\* step is always possible: WhileTest and ForStep are guarded by pc alone).
C10_DestroyCollidingTerminates == []C10_Safe /\ [][C10_Step]_vars

\* A call that needed three scans.
C10_Witness ==
    /\ Returned("destroy")
    /\ scans = 3
    /\ Len(entry) = 6

====
